---- MODULE Spec2Model ----
(***************************************************************************)
(* Category subschemas of the Open Targets GraphQL schema                  *)
(* (open_targets_platform_mcp.tools.schema): the module-level cache of     *)
(* category subschemas, its prefetch / get / lookup operations, and the    *)
(* depth-bounded reachability the subschemas are expanded with.            *)
(*                                                                         *)
(* The module also covers one call of the batch query tool                 *)
(* (tools.batch_query).  Its specifications:                               *)
(*   Spec       the cache: prefetch callers, get and lookup requests, on   *)
(*              the schema and the categories of the test fixtures, with   *)
(*              callers and readers interleaved between the steps of a     *)
(*              build (the event loop's one-call-at-a-time order is among  *)
(*              the interleavings);                                        *)
(*   SpecReach  one run of _build_category_subschema's expansion, on every *)
(*              graph over ReachTypes, every seed list and every depth;    *)
(*   SpecBatch  one call of _batch_query_impl, its tasks taking the        *)
(*              semaphore in any order (SpecBatchFair: with the event      *)
(*              loop's fairness).                                          *)
(***************************************************************************)
EXTENDS Integers, Sequences, FiniteSets, TLC

VARIABLES
    _cached_subschemas,   \* subschema.py: the module-level cache (None or CategorySubschemas)
    _cached_schema,       \* schema.py: the printed schema of prefetch_schema (set or None)
    _cached_type_graph,   \* type_graph.py: the graph and schema of prefetch_type_graph (set or None)
    categories_json,      \* assets/categories.json as _load_categories returns it, in file order
    pc,                   \* per prefetch caller: its position in prefetch_category_subschemas, or the error its call raised
    depth_arg,            \* per prefetch caller: the depth argument of its call while it runs (the default otherwise)
    subschemas,           \* per prefetch caller: the local dict of build_category_subschemas
    builds,               \* number of executions of build_category_subschemas that entered the loop
    last,                 \* the get / lookup call a reader is in: what it found and what it returned or raised
    r_graph,              \* SpecReach: the type graph of the run
    r_seeds,              \* SpecReach: category_data["types"] of the run
    r_depth,              \* SpecReach: the depth argument of the run
    r_visited,            \* SpecReach: types reached so far
    r_frontier,           \* SpecReach: types added by the latest expansion step
    r_level,              \* SpecReach: number of expansion steps done
    r_pc,                 \* SpecReach: "expand" while the loop runs, "done" once it returned, "rendered" after _types_to_sdl
    r_iter,               \* SpecReach: the order in which the set of types yielded its members to sorted()
    r_sdl,                \* SpecReach: the SDL rendered from the returned types
    b_variables_list,     \* SpecBatch: variables_list of the batch call, each entry with what its execution will answer
    b_tasks,              \* SpecBatch: per entry, where its _handle_single_query task is: "waiting", "executing", "returned", "raised"
    b_semaphore,          \* SpecBatch: the value of the semaphore of the call
    b_calls,              \* SpecBatch: per entry, how often execute_graphql_query was called with its variables
    b_results,            \* SpecBatch: per entry, the BatchQuerySingleResult its task returned (Pending before)
    b_pc,                 \* SpecBatch: "gather" while _batch_query_impl awaits the tasks, "returned" or "raised" once it is over
    b_outcome             \* SpecBatch: what _batch_query_impl returned or raised

cache_vars == <<_cached_subschemas, _cached_schema, _cached_type_graph, categories_json, pc, depth_arg, subschemas, builds, last>>

reach_vars == <<r_graph, r_seeds, r_depth, r_visited, r_frontier, r_level, r_pc, r_iter, r_sdl>>

batch_vars == <<b_variables_list, b_tasks, b_semaphore, b_calls, b_results, b_pc, b_outcome>>

vars == <<cache_vars, reach_vars, batch_vars>>

(***************************************************************************)
(* Bounds of the model.                                                    *)
(***************************************************************************)
\* number of callers of prefetch_category_subschemas
NumCallers == 2

\* largest finite depth a run or a prefetch is given
MaxDepth == 3

\* longest list of category names a lookup request carries
MaxRequest == 2

\* longest variables_list a batch call is given
MaxBatch == 3

(***************************************************************************)
(* Depth values: int | Literal["exhaustive"]  (subschema.py:45, :78) and   *)
(* max_depth: int | None.                                                  *)
(***************************************************************************)
IntDepth(n) == [exhaustive |-> FALSE, n |-> n]

Exhaustive == [exhaustive |-> TRUE, n |-> 0]

Depths == {IntDepth(n) : n \in 0..MaxDepth} \cup {Exhaustive}

NoDepthLimit == [none |-> TRUE, n |-> 0]

DepthLimit(n) == [none |-> FALSE, n |-> n]

(***************************************************************************)
(* Python's sorted() on strings: names are ordered by code point.          *)
(* NameOrder lists every name of the model in that order; the rank of a    *)
(* name is its position.                                                   *)
(***************************************************************************)
NameOrder == << "A", "B", "Bogus", "Boolean", "C", "Disease", "DiseaseType", "Drug", "Int", "Mechanism", "NonExistentType", "Pagination", "Pathway", "Query", "SearchResult", "String", "Target", "disease-info", "shared-types", "target-info", "test", "unknown-category" >>

RankOf == [name \in {NameOrder[i] : i \in 1..Len(NameOrder)} |-> CHOOSE i \in 1..Len(NameOrder) : NameOrder[i] = name]

Rank(name) == RankOf[name]

RECURSIVE sorted(_)
sorted(names) ==
    IF names = {} THEN << >>
    ELSE LET first == CHOOSE a \in names : \A b \in names : Rank(a) <= Rank(b)
         IN  <<first>> \o sorted(names \ {first})

RECURSIVE join(_, _)
join(sep, parts) ==
    IF parts = << >> THEN << >>
    ELSE IF Len(parts) = 1 THEN <<parts[1]>>
    ELSE <<parts[1], sep>> \o join(sep, Tail(parts))

ListToSet(list) == {list[i] : i \in 1..Len(list)}

\* the orders in which a set can yield its members (str hashes, and with them the
\* iteration order of a set of names, change from one interpreter run to the next)
IterationOrders(names) == {order \in [1..Cardinality(names) -> names] : ListToSet(order) = names}

\* one name put at its place in a list that is in order
RECURSIVE insort(_, _)
insort(name, list) ==
    IF list = << >> THEN <<name>>
    ELSE IF Rank(name) <= Rank(list[1]) THEN <<name>> \o list
    ELSE <<list[1]>> \o insort(name, Tail(list))

\* a variant of sorted() that keeps the order it was given
unsorted_iteration(order) == order

\* sorted() on the members of a set as the set yields them
RECURSIVE sorted_iteration(_)
sorted_iteration(order) ==
    IF order = << >> THEN << >>
    ELSE insort(order[1], sorted_iteration(Tail(order)))

(***************************************************************************)
(* type_graph.py is not among the sources: TypeGraph and                   *)
(* get_reachable_types_with_depth follow the description of the            *)
(* reachability engine (multi-source breadth-first search, seeds filtered  *)
(* to the graph's types, one frontier expansion per depth level, early     *)
(* stop on an empty frontier, max_depth None for the exhaustive search).   *)
(***************************************************************************)
TypeGraph(types, edges) == [types |-> types, edges |-> edges]

\* a variant of the expansion that forgets what was visited
ExpandFrontierRevisiting(graph, visited, frontier) ==
    UNION {graph.edges[x] : x \in frontier}

\* a variant of the expansion that remembers the latest frontier only
ExpandFrontierForgetful(graph, visited, frontier) ==
    (UNION {graph.edges[x] : x \in frontier}) \ frontier

\* the types the frontier references that were not reached before
ExpandFrontier(graph, visited, frontier) ==
    (UNION {graph.edges[x] : x \in frontier}) \ visited

\* the loop condition: something left to expand and the depth not exhausted
KeepExpanding(frontier, level, max_depth) ==
    /\ frontier # {}
    /\ (max_depth.none \/ level < max_depth.n)

RECURSIVE ReachFrom(_, _, _, _, _)
ReachFrom(graph, visited, frontier, level, max_depth) ==
    IF KeepExpanding(frontier, level, max_depth)
    THEN LET next_frontier == ExpandFrontier(graph, visited, frontier)
         IN  ReachFrom(graph, visited \cup next_frontier, next_frontier, level + 1, max_depth)
    ELSE visited

get_reachable_types_with_depth(graph, seed_types, max_depth) ==
    LET valid_seeds == {t \in seed_types : t \in graph.types}
    IN  ReachFrom(graph, valid_seeds, valid_seeds, 0, max_depth)

(***************************************************************************)
(* subschema.py: rendering and the build of one category.                  *)
(***************************************************************************)
\* graphql.print_type: the definition text of one named type
print_type(type_name) == "type " \o type_name

BlankLine == "\n\n"

\* subschema.py:63-70, with the order the set is iterated in made explicit
_types_to_sdl_iterating(order, schema) ==
    LET ordered == sorted_iteration(order)
        known == SelectSeq(ordered, LAMBDA t : t \in schema.type_map)
        sdl_parts == [i \in 1..Len(known) |-> print_type(known[i])]
    IN  join(BlankLine, sdl_parts)

\* subschema.py:63-70
_types_to_sdl(type_names, schema) ==
    LET ordered == sorted(type_names)
        known == SelectSeq(ordered, LAMBDA t : t \in schema.type_map)
        sdl_parts == [i \in 1..Len(known) |-> print_type(known[i])]
    IN  join(BlankLine, sdl_parts)

\* a variant of the filter with its test inverted: it keeps the names that are no types
valid_seed_types_inverted(seed_types, graph) == {t \in seed_types : t \notin graph.types}

\* a variant of the filter that keeps one known seed, the first in order, and drops the rest
valid_seed_types_single(seed_types, graph) ==
    LET known == {t \in seed_types : t \in graph.types}
    IN  {t \in known : \A u \in known : Rank(t) <= Rank(u)}

\* a variant of the filter that gives up the whole category once a seed is unknown
valid_seed_types_all_or_nothing(seed_types, graph) ==
    IF \A t \in seed_types : t \in graph.types THEN seed_types ELSE {}

\* a variant of the filter that falls back to every type of the graph when no seed is known
valid_seed_types_or_all(seed_types, graph) ==
    IF \A t \in seed_types : t \notin graph.types THEN graph.types ELSE {t \in seed_types : t \in graph.types}

\* subschema.py:96-97
valid_seed_types(seed_types, graph) == {t \in seed_types : t \in graph.types}

\* a variant of the conversion that tests the depth for truth, so that 0 counts as unset
max_depth_of_falsy(depth) ==
    IF depth.exhaustive \/ depth.n = 0 THEN NoDepthLimit ELSE DepthLimit(depth.n)

\* a variant of the conversion that counts the seeds as the first level
max_depth_of_one_more(depth) ==
    IF depth.exhaustive THEN NoDepthLimit ELSE DepthLimit(depth.n + 1)

\* a variant of the conversion that treats every depth above 1 as 1
max_depth_of_capped_at_one(depth) ==
    IF depth.exhaustive THEN NoDepthLimit ELSE DepthLimit(IF depth.n > 1 THEN 1 ELSE depth.n)

\* a variant of the conversion that maps "exhaustive" to no expansion instead of no limit
max_depth_of_exhaustive_zero(depth) ==
    IF depth.exhaustive THEN DepthLimit(0) ELSE DepthLimit(depth.n)

\* a variant of the conversion that maps "exhaustive" to the default depth of 1
max_depth_of_exhaustive_one(depth) ==
    IF depth.exhaustive THEN DepthLimit(1) ELSE DepthLimit(depth.n)

\* subschema.py:99-100
max_depth_of(depth) == IF depth.exhaustive THEN NoDepthLimit ELSE DepthLimit(depth.n)

ERR_MISSING_TYPES == "KeyError: 'types'"

\* a variant of the access that reads a missing "types" as an empty list
types_list_defaulting(category_data) ==
    [raised |-> "", value |-> IF "types" \in DOMAIN category_data THEN category_data.types ELSE << >>]

\* subschema.py:93: category_data["types"], a KeyError when the entry has no such field
types_list(category_data) ==
    IF "types" \in DOMAIN category_data
    THEN [raised |-> "", value |-> category_data.types]
    ELSE [raised |-> ERR_MISSING_TYPES, value |-> << >>]

\* subschema.py:92-103
expanded_types(category_data, graph, depth) ==
    LET seed_types == ListToSet(types_list(category_data).value)
    IN  get_reachable_types_with_depth(graph, valid_seed_types(seed_types, graph), max_depth_of(depth))

CategorySubschema(name, description, types, sdl) ==
    [name |-> name, description |-> description, types |-> types, sdl |-> sdl]

\* a variant that leaves every description empty
description_of_blank(category_data) == ""

\* subschema.py:108-111
description_of(category_data) ==
    IF "description" \in DOMAIN category_data THEN category_data.description ELSE ""

\* a variant of the build that renders the seeds instead of the expanded types
_build_category_subschema_sdl_of_seeds(category_name, category_data, graph, schema, depth) ==
    LET types == expanded_types(category_data, graph, depth)
    IN  CategorySubschema(category_name, description_of(category_data), types,
                          _types_to_sdl(ListToSet(types_list(category_data).value), schema))

\* subschema.py:73-118
_build_category_subschema(category_name, category_data, graph, schema, depth) ==
    LET types == expanded_types(category_data, graph, depth)
    IN  CategorySubschema(category_name, description_of(category_data), types, _types_to_sdl(types, schema))

(***************************************************************************)
(* The schema and the categories of the test fixtures.                     *)
(***************************************************************************)
\* test_subschema.py:24-74: the named types of mock_graphql_schema and what each references
MockEdges ==
    [t \in {"Query", "Target", "Disease", "Drug", "Pathway", "Mechanism", "Pagination", "DiseaseType", "SearchResult", "String", "Int", "Boolean"} |->
        CASE t = "Query" -> {"Target", "Disease", "String"}
          [] t = "Target" -> {"String", "Disease", "Pathway"}
          [] t = "Disease" -> {"String", "Target", "Drug"}
          [] t = "Drug" -> {"String", "Mechanism"}
          [] t = "Pathway" -> {"String"}
          [] t = "Mechanism" -> {"String"}
          [] t = "Pagination" -> {"Int"}
          [] t = "SearchResult" -> {"Target", "Disease", "Drug"}
          [] OTHER -> {}]

MockGraph == TypeGraph(DOMAIN MockEdges, MockEdges)

MockSchema == [type_map |-> DOMAIN MockEdges]

\* test_subschema.py:78-93 (two of mock_categories) and :238-241 (a seed that is not in the schema)
Categories ==
    << [name |-> "target-info", data |-> [description |-> "Target information and pathways", types |-> <<"Target", "Pathway">>]],
       [name |-> "disease-info", data |-> [description |-> "Disease information and drugs", types |-> <<"Disease", "Drug">>]],
       [name |-> "test", data |-> [description |-> "Test", types |-> <<"Target", "NonExistentType">>]] >>

\* a registry with a category that has no description and a category whose only seed
\* is no type of the schema (test_subschema.py:238-241 without "Target")
SparseCategories ==
    << [name |-> "target-info", data |-> [types |-> <<"Target", "Pathway">>]],
       [name |-> "test", data |-> [description |-> "Test", types |-> <<"NonExistentType">>]] >>

\* the registry of the fixtures with the "types" field of its second category missing
MalformedCategories ==
    << Categories[1],
       [name |-> "disease-info", data |-> [description |-> "Disease information and drugs"]],
       Categories[3] >>

\* the contents assets/categories.json may have
Registries == {Categories, SparseCategories, MalformedCategories}

\* the keys of the loaded registry
CategoryNames == {categories_json[i].name : i \in 1..Len(categories_json)}

\* the depth settings of the callers: the default of subschema.py:122 and "exhaustive"
PrefetchDepths == {IntDepth(1), Exhaustive}

Callers == 1..NumCallers

\* the names a lookup request may carry: the categories and one name that is none
RequestNames == {Categories[i].name : i \in 1..Len(Categories)} \cup {"unknown-category"}

Requests == UNION {[1..n -> RequestNames] : n \in 0..MaxRequest}

(***************************************************************************)
(* The cache object.  id tells the objects apart (Python's `is`): 0 is     *)
(* None, and the object a caller's build constructs carries the caller's   *)
(* number.                                                                 *)
(***************************************************************************)
EmptyDict == [c \in {} |-> CategorySubschema("", "", {}, << >>)]

None == [id |-> 0, subschemas |-> EmptyDict, depth |-> IntDepth(1)]

IsNone(obj) == obj.id = 0

\* subschema.py:37-45, constructed at :147
CategorySubschemas(id, dict, depth) == [id |-> id, subschemas |-> dict, depth |-> depth]

(***************************************************************************)
(* What a call returns or raises.                                          *)
(***************************************************************************)
ERR_SUBSCHEMAS_NOT_INIT == "RuntimeError: Category subschemas not initialized. Call prefetch_category_subschemas() at server startup."

ERR_SCHEMA_NOT_INIT == "RuntimeError: Schema not initialized. Call prefetch_schema() at server startup."

ERR_INVALID_CATEGORY == "ValueError: Invalid category name(s)"

ERR_SCHEMA_UNAVAILABLE == "RuntimeError: type graph not initialized"

Raise(error) == [raised |-> error, value |-> None, sdl |-> << >>, invalid_categories |-> << >>, available_categories |-> << >>]

RaiseInvalid(invalid, available) == [raised |-> ERR_INVALID_CATEGORY, value |-> None, sdl |-> << >>, invalid_categories |-> invalid, available_categories |-> available]

ReturnObject(obj) == [raised |-> "", value |-> obj, sdl |-> << >>, invalid_categories |-> << >>, available_categories |-> << >>]

ReturnSdl(sdl) == [raised |-> "", value |-> None, sdl |-> sdl, invalid_categories |-> << >>, available_categories |-> << >>]

\* a variant of get_category_subschemas that answers an unset cache with a default object
get_category_subschemas_default(cached) ==
    IF IsNone(cached) THEN ReturnObject(CategorySubschemas(0, EmptyDict, IntDepth(1))) ELSE ReturnObject(cached)

\* subschema.py:162-173
get_category_subschemas(cached) ==
    IF IsNone(cached) THEN Raise(ERR_SUBSCHEMAS_NOT_INIT) ELSE ReturnObject(cached)

\* a variant of the validation that reports the whole request once a name is unknown
invalid_categories_whole_request(categories, cached) ==
    IF \E i \in 1..Len(categories) : categories[i] \notin DOMAIN cached.subschemas THEN categories ELSE << >>

\* schema.py:49-50
invalid_categories_of(categories, cached) ==
    SelectSeq(categories, LAMBDA c : c \notin DOMAIN cached.subschemas)

\* a variant of the collection that stops after the first requested category
all_types_first_category(categories, cached) ==
    IF categories = << >> THEN {} ELSE cached.subschemas[categories[1]].types

\* a variant of the collection that assigns each category's types instead of adding them
all_types_last_category(categories, cached) ==
    IF categories = << >> THEN {} ELSE cached.subschemas[categories[Len(categories)]].types

\* schema.py:58-61
all_types_of(categories, cached) ==
    UNION {cached.subschemas[categories[i]].types : i \in 1..Len(categories)}

\* a variant of the call without the guard on the printed schema
lookup_without_schema_guard(categories, schema_text, cached, type_graph) ==
    IF IsNone(cached) THEN [outcome |-> Raise(ERR_SUBSCHEMAS_NOT_INIT), cached |-> cached]
    ELSE IF \E i \in 1..Len(categories) : categories[i] \notin DOMAIN cached.subschemas
    THEN [outcome |-> RaiseInvalid(SelectSeq(categories, LAMBDA c : c \notin DOMAIN cached.subschemas), sorted(DOMAIN cached.subschemas)), cached |-> cached]
    ELSE IF ~type_graph THEN [outcome |-> Raise(ERR_SCHEMA_UNAVAILABLE), cached |-> cached]
    ELSE [outcome |-> ReturnSdl(_types_to_sdl(UNION {cached.subschemas[categories[i]].types : i \in 1..Len(categories)}, MockSchema)), cached |-> cached]

\* a variant of the call that collects the types in the first requested category's own
\* set instead of a fresh one
lookup_into_cached_set(categories, schema_text, cached, type_graph) ==
    IF ~schema_text THEN [outcome |-> Raise(ERR_SCHEMA_NOT_INIT), cached |-> cached]
    ELSE IF IsNone(cached) THEN [outcome |-> Raise(ERR_SUBSCHEMAS_NOT_INIT), cached |-> cached]
    ELSE IF \E i \in 1..Len(categories) : categories[i] \notin DOMAIN cached.subschemas
    THEN [outcome |-> RaiseInvalid(SelectSeq(categories, LAMBDA c : c \notin DOMAIN cached.subschemas), sorted(DOMAIN cached.subschemas)), cached |-> cached]
    ELSE LET all_types == UNION {cached.subschemas[categories[i]].types : i \in 1..Len(categories)}
         IN  [outcome |-> ReturnSdl(_types_to_sdl(all_types, MockSchema)),
              cached |-> IF categories = << >> THEN cached
                         ELSE [cached EXCEPT !.subschemas[categories[1]].types = all_types]]

\* schema.py:31-65: the outcome of the call, and the cache as the call leaves it
get_open_targets_graphql_schema(categories, schema_text, cached, type_graph) ==
    IF ~schema_text THEN [outcome |-> Raise(ERR_SCHEMA_NOT_INIT), cached |-> cached]
    ELSE IF get_category_subschemas(cached).raised # ""
    THEN [outcome |-> get_category_subschemas(cached), cached |-> cached]
    ELSE LET available_categories == sorted(DOMAIN cached.subschemas)
             invalid_categories == invalid_categories_of(categories, cached)
         IN  IF invalid_categories # << >>
             THEN [outcome |-> RaiseInvalid(invalid_categories, available_categories), cached |-> cached]
             ELSE IF ~type_graph
             THEN [outcome |-> Raise(ERR_SCHEMA_UNAVAILABLE), cached |-> cached]
             ELSE [outcome |-> ReturnSdl(_types_to_sdl(all_types_of(categories, cached), MockSchema)), cached |-> cached]

\* a reader's call: the request, what it found (the cache, whether prefetch_schema had
\* run, the number of prefetch calls that had completed) and the outcome
Call(op, categories, before, schema_text, completed, outcome) ==
    [op |-> op, categories |-> categories, before |-> before, schema_text |-> schema_text, completed |-> completed, outcome |-> outcome]

NoCall == Call("none", << >>, None, FALSE, 0, Raise(""))

Completed == Cardinality({p \in Callers : pc[p] = "done"})

(***************************************************************************)
(* tools/batch_query/batch_query.py: results of a batch call.              *)
(***************************************************************************)
\* QueryResultStatus, as batch_query.py:38 and :65-67 name its members
SUCCESS == "success"

ERROR == "error"

WARNING == "warning"

NoVariables == [absent |-> TRUE]

QueryResult(status, message, variables) == [status |-> status, message |-> message, variables |-> variables]

\* QueryResult.create_error as batch_query.py:30-33 and :52 call it
create_error(message, variables) == QueryResult(ERROR, message, variables)

ERR_EMPTY_VARIABLES_LIST == <<"variables_list cannot be empty">>

\* batch_query.py:31: the message names the key field and the index of the entry
ERR_KEY_FIELD_NOT_FOUND(index) == <<"Key field 'ensemblId' not found in variables at index", index>>

BatchQuerySingleResult(index, key, result) == [index |-> index, key |-> key, result |-> result]

\* key of an entry whose variables lack the key field (batch_query.py:29)
NoKey == ""

\* a variant of the summary that counts as failed whatever did not succeed
BatchQuerySummaryFailedIsRest(variables_list, results) ==
    [total |-> Len(variables_list),
     successful |-> Cardinality({i \in 1..Len(results) : results[i].result.status = SUCCESS}),
     failed |-> Len(variables_list) - Cardinality({i \in 1..Len(results) : results[i].result.status = SUCCESS}),
     warning |-> Cardinality({i \in 1..Len(results) : results[i].result.status = WARNING})]

\* batch_query.py:61-68: the counts of the summary
BatchQuerySummary(variables_list, results) ==
    [total |-> Len(variables_list),
     successful |-> Cardinality({i \in 1..Len(results) : results[i].result.status = SUCCESS}),
     failed |-> Cardinality({i \in 1..Len(results) : results[i].result.status = ERROR}),
     warning |-> Cardinality({i \in 1..Len(results) : results[i].result.status = WARNING})]

BatchQueryResult(results, summary) == [results |-> results, summary |-> summary]

\* what execute_graphql_query answers for one entry: a QueryResult of one of the three
\* statuses, or an exception (test_batch_query.py:160-164)
Responses ==
    { [raises |-> FALSE, result |-> QueryResult(SUCCESS, << >>, NoVariables)],
      [raises |-> FALSE, result |-> QueryResult(ERROR, <<"Query failed">>, NoVariables)],
      [raises |-> FALSE, result |-> QueryResult(WARNING, <<"jq filter failed">>, NoVariables)],
      [raises |-> TRUE, result |-> QueryResult(ERROR, <<"Network error">>, NoVariables)] }

\* the variables of an entry: with the key field or with another field instead
\* (test_batch_query.py:50-54)
VariableSets == {[ensemblId |-> "ENSG00000141510"], [wrongField |-> "value"]}

\* an entry whose variables lack the key field is never executed: one response is enough
BatchEntries ==
    {[variables |-> v, response |-> r] : v \in {w \in VariableSets : "ensemblId" \in DOMAIN w}, r \in Responses}
    \cup {[variables |-> [wrongField |-> "value"], response |-> CHOOSE r \in Responses : r.result.status = SUCCESS]}

\* no batch call is modelled in Spec and SpecReach
BatchIdle ==
    /\ b_variables_list = << >>
    /\ b_tasks = << >>
    /\ b_semaphore = 0
    /\ b_calls = << >>
    /\ b_results = << >>
    /\ b_pc = "off"
    /\ b_outcome = NoVariables

(***************************************************************************)
(* The cache: initial state and operations.                                *)
(***************************************************************************)
\* no expansion run is modelled in Spec
ReachIdle ==
    /\ r_graph = TypeGraph({}, << >>)
    /\ r_seeds = << >>
    /\ r_depth = IntDepth(0)
    /\ r_visited = {}
    /\ r_frontier = {}
    /\ r_level = 0
    /\ r_pc = "off"
    /\ r_iter = << >>
    /\ r_sdl = << >>

\* nothing fetched, nothing cached (subschema.py:18, schema.py:17), no call made
CacheIdle ==
    /\ _cached_subschemas = None
    /\ _cached_schema = FALSE
    /\ _cached_type_graph = FALSE
    /\ pc = [p \in Callers |-> "idle"]
    /\ depth_arg = [p \in Callers |-> IntDepth(1)]
    /\ subschemas = [p \in Callers |-> EmptyDict]
    /\ builds = 0
    /\ last = NoCall

Init ==
    /\ CacheIdle
    /\ categories_json \in Registries
    /\ ReachIdle
    /\ BatchIdle

\* type_graph.prefetch_type_graph (test_subschema.py:280): the graph and the schema are cached
PrefetchTypeGraph ==
    /\ last = NoCall
    /\ ~_cached_type_graph
    /\ _cached_type_graph' = TRUE
    /\ UNCHANGED <<_cached_subschemas, _cached_schema, pc, depth_arg, subschemas, builds, last, categories_json, reach_vars, batch_vars>>

\* schema.py:20-28
PrefetchSchema ==
    /\ last = NoCall
    /\ ~_cached_schema
    /\ _cached_schema' = TRUE
    /\ UNCHANGED <<_cached_subschemas, _cached_type_graph, pc, depth_arg, subschemas, builds, last, categories_json, reach_vars, batch_vars>>

\* a variant of the getters that builds the graph on demand instead of raising
get_type_graph_on_demand(fetched) == [raised |-> "", graph |-> MockGraph, schema |-> MockSchema]

\* type_graph.get_type_graph and get_cached_schema: what prefetch_type_graph cached, an
\* error when it has not run
get_type_graph(fetched) ==
    IF fetched
    THEN [raised |-> "", graph |-> MockGraph, schema |-> MockSchema]
    ELSE [raised |-> ERR_SCHEMA_UNAVAILABLE, graph |-> TypeGraph({}, << >>), schema |-> [type_map |-> {}]]

\* subschema.py:150-159 calling :121-136: the call begins; get_type_graph and
\* get_cached_schema raise when nothing was fetched, else the local dict starts empty
PrefetchBegin(p, depth) ==
    /\ last = NoCall
    /\ pc[p] = "idle"
    /\ depth_arg' = [depth_arg EXCEPT ![p] = IF get_type_graph(_cached_type_graph).raised = "" THEN depth ELSE IntDepth(1)]
    /\ builds' = IF get_type_graph(_cached_type_graph).raised = "" THEN builds + 1 ELSE builds
    /\ pc' = [pc EXCEPT ![p] = IF get_type_graph(_cached_type_graph).raised = "" THEN "loop" ELSE get_type_graph(_cached_type_graph).raised]
    /\ subschemas' = [subschemas EXCEPT ![p] = EmptyDict]
    /\ UNCHANGED <<_cached_subschemas, _cached_schema, _cached_type_graph, last, categories_json, reach_vars, batch_vars>>

\* a variant of the loop that fills the module-level cache category by category
cache_during_build_in_place(cached, p, dict, depth) == CategorySubschemas(p, dict, depth)

\* subschema.py:136-145: the loop fills a dict local to the call; the module-level
\* cache is what it was
cache_during_build(cached, p, dict, depth) == cached

\* subschema.py:138-145: one iteration of the loop over categories.items()
PrefetchBuildNext(p) ==
    /\ last = NoCall
    /\ pc[p] = "loop"
    /\ Cardinality(DOMAIN subschemas[p]) < Len(categories_json)
    /\ LET entry == categories_json[Cardinality(DOMAIN subschemas[p]) + 1]
           built == _build_category_subschema(entry.name, entry.data, MockGraph, MockSchema, depth_arg[p])
           dict == (entry.name :> built) @@ subschemas[p]
       IN  /\ types_list(entry.data).raised = ""
           /\ subschemas' = [subschemas EXCEPT ![p] = dict]
           /\ _cached_subschemas' = cache_during_build(_cached_subschemas, p, dict, depth_arg[p])
    /\ UNCHANGED <<_cached_schema, _cached_type_graph, pc, depth_arg, builds, last, categories_json, reach_vars, batch_vars>>

\* a variant of the call that assigns what was built so far when the build is cut short
cache_after_abort_keeps_partial(cached, p, dict, depth) == CategorySubschemas(p, dict, depth)

\* subschema.py:158-159: an exception leaves build_category_subschemas before the
\* assignment is reached; the module-level cache is what it was
cache_after_abort(cached, p, dict, depth) == cached

\* subschema.py:93 inside the loop of :138-145: the entry has no "types" field, the
\* KeyError leaves the build and the call; the local dict is dropped
PrefetchBuildRaises(p) ==
    /\ last = NoCall
    /\ pc[p] = "loop"
    /\ Cardinality(DOMAIN subschemas[p]) < Len(categories_json)
    /\ LET entry == categories_json[Cardinality(DOMAIN subschemas[p]) + 1]
       IN  /\ types_list(entry.data).raised # ""
           /\ pc' = [pc EXCEPT ![p] = types_list(entry.data).raised]
    /\ _cached_subschemas' = cache_after_abort(_cached_subschemas, p, subschemas[p], depth_arg[p])
    /\ subschemas' = [subschemas EXCEPT ![p] = EmptyDict]
    /\ depth_arg' = [depth_arg EXCEPT ![p] = IntDepth(1)]
    /\ UNCHANGED <<_cached_schema, _cached_type_graph, builds, last, categories_json, reach_vars, batch_vars>>

\* subschema.py:136-159 has no handler: a cancellation or an interrupt of the server
\* while the loop runs leaves the call the same way
PrefetchInterrupted(p) ==
    /\ last = NoCall
    /\ pc[p] = "loop"
    /\ pc' = [pc EXCEPT ![p] = "interrupted"]
    /\ _cached_subschemas' = cache_after_abort(_cached_subschemas, p, subschemas[p], depth_arg[p])
    /\ subschemas' = [subschemas EXCEPT ![p] = EmptyDict]
    /\ depth_arg' = [depth_arg EXCEPT ![p] = IntDepth(1)]
    /\ UNCHANGED <<_cached_schema, _cached_type_graph, builds, last, categories_json, reach_vars, batch_vars>>

\* a variant of the result that records the default depth whatever depth was passed
published_by_default_depth(p, dict, depth) == CategorySubschemas(p, dict, IntDepth(1))

\* the object subschema.py:147 returns and :159 assigns to the module-level cache
published_by(p, dict, depth) == CategorySubschemas(p, dict, depth)

\* subschema.py:147 and :159: the loop is over, the result is assigned and the call returns
PrefetchPublish(p) ==
    /\ last = NoCall
    /\ pc[p] = "loop"
    /\ Cardinality(DOMAIN subschemas[p]) = Len(categories_json)
    /\ _cached_subschemas' = published_by(p, subschemas[p], depth_arg[p])
    /\ pc' = [pc EXCEPT ![p] = "done"]
    /\ subschemas' = [subschemas EXCEPT ![p] = EmptyDict]
    /\ depth_arg' = [depth_arg EXCEPT ![p] = IntDepth(1)]
    /\ UNCHANGED <<_cached_schema, _cached_type_graph, builds, last, categories_json, reach_vars, batch_vars>>

\* subschema.py:162-173, called by a reader
Get ==
    /\ last = NoCall
    /\ last' = Call("get", << >>, _cached_subschemas, _cached_schema, Completed, get_category_subschemas(_cached_subschemas))
    /\ UNCHANGED <<_cached_subschemas, _cached_schema, _cached_type_graph, pc, depth_arg, subschemas, builds, categories_json, reach_vars, batch_vars>>

\* schema.py:31-65, called by a reader
Lookup(categories) ==
    LET result == get_open_targets_graphql_schema(categories, _cached_schema, _cached_subschemas, _cached_type_graph)
    IN  /\ last = NoCall
        /\ last' = Call("lookup", categories, _cached_subschemas, _cached_schema, Completed, result.outcome)
        /\ _cached_subschemas' = result.cached
        /\ UNCHANGED <<_cached_schema, _cached_type_graph, pc, depth_arg, subschemas, builds, categories_json, reach_vars, batch_vars>>

\* the reader has its result (or its exception): the call is over
ReaderReturns ==
    /\ last # NoCall
    /\ last' = NoCall
    /\ UNCHANGED <<_cached_subschemas, _cached_schema, _cached_type_graph, pc, depth_arg, subschemas, builds, categories_json, reach_vars, batch_vars>>

Next ==
    \/ PrefetchTypeGraph
    \/ PrefetchSchema
    \/ \E p \in Callers, depth \in PrefetchDepths : PrefetchBegin(p, depth)
    \/ \E p \in Callers : PrefetchBuildNext(p)
    \/ \E p \in Callers : PrefetchBuildRaises(p)
    \/ \E p \in Callers : PrefetchInterrupted(p)
    \/ \E p \in Callers : PrefetchPublish(p)
    \/ Get
    \/ \E categories \in Requests : Lookup(categories)
    \/ ReaderReturns

Spec == Init /\ [][Next]_vars

(***************************************************************************)
(* One run of the expansion of _build_category_subschema                   *)
(* (subschema.py:92-103), the search of get_reachable_types_with_depth     *)
(* taken one frontier expansion at a time.                                 *)
(***************************************************************************)
ReachTypes == {"A", "B", "C"}

\* seed names: the types of the graph and one name that is no type of it
SeedNames == ReachTypes \cup {"Bogus"}

ReachGraphs == {TypeGraph(ReachTypes, edges) : edges \in [ReachTypes -> SUBSET ReachTypes]}

InitReach ==
    /\ CacheIdle
    /\ categories_json = Categories
    /\ BatchIdle
    /\ r_graph \in ReachGraphs
    /\ \E seeds \in SUBSET SeedNames : r_seeds = sorted(seeds)
    /\ r_depth \in Depths
    /\ r_visited = {}
    /\ r_frontier = {}
    /\ r_level = 0
    /\ r_pc = "call"
    /\ r_iter = << >>
    /\ r_sdl = << >>

\* subschema.py:92-103 up to the call, and the engine's own filter of the seeds
ReachBegin ==
    /\ r_pc = "call"
    /\ LET seed_types == ListToSet(r_seeds)
           valid_seeds == {t \in valid_seed_types(seed_types, r_graph) : t \in r_graph.types}
       IN  /\ r_visited' = valid_seeds
           /\ r_frontier' = valid_seeds
    /\ r_level' = 0
    /\ r_pc' = "expand"
    /\ UNCHANGED <<cache_vars, batch_vars, r_graph, r_seeds, r_depth, r_iter, r_sdl>>

\* one depth level: the frontier is replaced by the unvisited types it references
ReachExpand ==
    /\ r_pc = "expand"
    /\ KeepExpanding(r_frontier, r_level, max_depth_of(r_depth))
    /\ r_frontier' = ExpandFrontier(r_graph, r_visited, r_frontier)
    /\ r_visited' = r_visited \cup r_frontier'
    /\ r_level' = r_level + 1
    /\ UNCHANGED <<cache_vars, batch_vars, r_graph, r_seeds, r_depth, r_pc, r_iter, r_sdl>>

\* the loop is over: the visited types are returned as expanded_types (subschema.py:103)
ReachReturn ==
    /\ r_pc = "expand"
    /\ ~KeepExpanding(r_frontier, r_level, max_depth_of(r_depth))
    /\ r_pc' = "done"
    /\ UNCHANGED <<cache_vars, batch_vars, r_graph, r_seeds, r_depth, r_visited, r_frontier, r_level, r_iter, r_sdl>>

\* the schema the graph of the run was built from
ReachSchema == [type_map |-> r_graph.types]

\* subschema.py:106: the returned types are rendered; the set yields them in some order
ReachRender ==
    /\ r_pc = "done"
    /\ r_iter' \in IterationOrders(r_visited)
    /\ r_sdl' = _types_to_sdl_iterating(r_iter', ReachSchema)
    /\ r_pc' = "rendered"
    /\ UNCHANGED <<cache_vars, batch_vars, r_graph, r_seeds, r_depth, r_visited, r_frontier, r_level>>

NextReach ==
    \/ ReachBegin
    \/ ReachExpand
    \/ ReachReturn
    \/ ReachRender

SpecReach == InitReach /\ [][NextReach]_vars

(***************************************************************************)
(* SpecBatch: one call of _batch_query_impl, on every variables_list of up *)
(* to MaxBatch entries.  The semaphore of batch_query.py:57 admits one     *)
(* task at a time and the tasks queue for it in index order.               *)
(***************************************************************************)
InitBatch ==
    /\ CacheIdle
    /\ categories_json = Categories
    /\ ReachIdle
    /\ b_variables_list \in UNION {[1..n -> BatchEntries] : n \in 0..MaxBatch}
    /\ b_tasks = << >>
    /\ b_semaphore = 0
    /\ b_calls = << >>
    /\ b_results = << >>
    /\ b_pc = "call"
    /\ b_outcome = NoVariables

\* batch_query.py:51-52: an empty variables_list is answered with an error QueryResult
BatchRejectEmpty ==
    /\ b_pc = "call"
    /\ b_variables_list = << >>
    /\ b_outcome' = create_error(ERR_EMPTY_VARIABLES_LIST, NoVariables)
    /\ b_pc' = "returned"
    /\ UNCHANGED <<cache_vars, reach_vars, b_variables_list, b_tasks, b_semaphore, b_calls, b_results>>

\* a variant of the semaphore that admits two tasks at a time
SemaphoreSlotsTwo == 1 + 1

\* batch_query.py:57: asyncio.Semaphore(1)
SemaphoreSlots == 1

\* the result slot of a task that has not returned
Pending == [pending |-> TRUE]

\* batch_query.py:56-62: the semaphore and one task per entry are created, the tasks are gathered
BatchGather ==
    /\ b_pc = "call"
    /\ b_variables_list # << >>
    /\ b_tasks' = [i \in 1..Len(b_variables_list) |-> "waiting"]
    /\ b_semaphore' = SemaphoreSlots
    /\ b_calls' = [i \in 1..Len(b_variables_list) |-> 0]
    /\ b_results' = [i \in 1..Len(b_variables_list) |-> Pending]
    /\ b_pc' = "gather"
    /\ UNCHANGED <<cache_vars, reach_vars, b_variables_list, b_outcome>>

\* batch_query.py:28-41: what a task returns, its execution having answered with a QueryResult
_handle_single_query(index, variables, response) ==
    IF "ensemblId" \notin DOMAIN variables
    THEN BatchQuerySingleResult(index, NoKey, create_error(ERR_KEY_FIELD_NOT_FOUND(index), variables))
    ELSE BatchQuerySingleResult(index, variables.ensemblId,
             IF response.result.status \in {ERROR, WARNING}
             THEN [response.result EXCEPT !.variables = variables]
             ELSE response.result)

\* whether the task's await of execute_graphql_query raises (batch_query.py:37)
execution_raises(entry) == "ensemblId" \in DOMAIN entry.variables /\ entry.response.raises

\* the tasks run while gather is awaited and, gather having raised, afterwards as well
TasksRunning == b_pc \in {"gather", "raised"}

\* batch_query.py:26-34 and :41: a task enters the semaphore, finds the key field
\* missing and returns its error entry; it awaits nothing in between
BatchTaskRejects(i) ==
    /\ TasksRunning
    /\ b_tasks[i] = "waiting"
    /\ b_semaphore > 0
    /\ "ensemblId" \notin DOMAIN b_variables_list[i].variables
    /\ b_results' = [b_results EXCEPT ![i] = _handle_single_query(i - 1, b_variables_list[i].variables, b_variables_list[i].response)]
    /\ b_tasks' = [b_tasks EXCEPT ![i] = "returned"]
    /\ UNCHANGED <<cache_vars, reach_vars, b_variables_list, b_semaphore, b_calls, b_pc, b_outcome>>

\* batch_query.py:26 and :35-37: a task enters the semaphore and awaits execute_graphql_query
BatchTaskExecutes(i) ==
    /\ TasksRunning
    /\ b_tasks[i] = "waiting"
    /\ b_semaphore > 0
    /\ "ensemblId" \in DOMAIN b_variables_list[i].variables
    /\ b_semaphore' = b_semaphore - 1
    /\ b_calls' = [b_calls EXCEPT ![i] = @ + 1]
    /\ b_tasks' = [b_tasks EXCEPT ![i] = "executing"]
    /\ UNCHANGED <<cache_vars, reach_vars, b_variables_list, b_results, b_pc, b_outcome>>

\* batch_query.py:37-41: the execution answers, the task leaves the semaphore and returns its entry
BatchExecutionReturns(i) ==
    /\ TasksRunning
    /\ b_tasks[i] = "executing"
    /\ ~execution_raises(b_variables_list[i])
    /\ b_results' = [b_results EXCEPT ![i] = _handle_single_query(i - 1, b_variables_list[i].variables, b_variables_list[i].response)]
    /\ b_tasks' = [b_tasks EXCEPT ![i] = "returned"]
    /\ b_semaphore' = b_semaphore + 1
    /\ UNCHANGED <<cache_vars, reach_vars, b_variables_list, b_calls, b_pc, b_outcome>>

\* batch_query.py:37 has no handler and :62 gathers without return_exceptions: the
\* exception leaves the task, through the semaphore, and the first one leaves gather
\* and _batch_query_impl; the other tasks are not cancelled
BatchExecutionRaises(i) ==
    /\ TasksRunning
    /\ b_tasks[i] = "executing"
    /\ execution_raises(b_variables_list[i])
    /\ b_tasks' = [b_tasks EXCEPT ![i] = "raised"]
    /\ b_semaphore' = b_semaphore + 1
    /\ b_pc' = "raised"
    /\ b_outcome' = IF b_pc = "gather" THEN [exception |-> b_variables_list[i].response.result.message] ELSE b_outcome
    /\ UNCHANGED <<cache_vars, reach_vars, b_variables_list, b_calls, b_results>>

\* batch_query.py:62-70: every task has returned, the results and their summary are returned
BatchReturn ==
    /\ b_pc = "gather"
    /\ \A i \in 1..Len(b_variables_list) : b_tasks[i] = "returned"
    /\ b_outcome' = BatchQueryResult(b_results, BatchQuerySummary(b_variables_list, b_results))
    /\ b_pc' = "returned"
    /\ UNCHANGED <<cache_vars, reach_vars, b_variables_list, b_tasks, b_semaphore, b_calls, b_results>>

NextBatch ==
    \/ BatchRejectEmpty
    \/ BatchGather
    \/ \E i \in 1..Len(b_variables_list) : BatchTaskRejects(i)
    \/ \E i \in 1..Len(b_variables_list) : BatchTaskExecutes(i)
    \/ \E i \in 1..Len(b_variables_list) : BatchExecutionReturns(i)
    \/ \E i \in 1..Len(b_variables_list) : BatchExecutionRaises(i)
    \/ BatchReturn

SpecBatch == InitBatch /\ [][NextBatch]_vars

\* the event loop runs every task that can run, and every execution answers or raises
SpecBatchFair == SpecBatch /\ WF_vars(NextBatch)

(***************************************************************************)
(* Properties of the cache (specification Spec).                           *)
(***************************************************************************)
InLoop(p) == pc[p] = "loop"

\* a caller whose local dict holds some categories and not yet all of them
MidBuild(p) ==
    /\ InLoop(p)
    /\ DOMAIN subschemas[p] # {}
    /\ DOMAIN subschemas[p] # CategoryNames

\* C1: however many callers invoke prefetch, concurrently or one after another, the
\* category build executes once, and the callers whose calls completed were all left
\* with one and the same cache object.  (The code runs the build on every call and
\* each call assigns an object of its own: TLC finds this violated.)
C1_BuildExecutesOnce ==
    /\ builds <= 1
    /\ \A p, q \in Callers : (pc[p] = "done" /\ pc[q] = "done") => published_by(p, EmptyDict, depth_arg[p]).id = published_by(q, EmptyDict, depth_arg[q]).id

\* C2: once the cache is published, no step replaces it or unsets it.  (A second
\* prefetch call assigns a new object: TLC finds this violated.)
C2_PublishedNeverReplaced ==
    [][~IsNone(_cached_subschemas) => _cached_subschemas' = _cached_subschemas]_vars

\* C3: in every state, also while a prefetch is iterating over the categories, the
\* module-level cache is None or holds a CategorySubschema, under its own name, for
\* every category of the registry.
C3_NeverPartiallyVisible ==
    \/ IsNone(_cached_subschemas)
    \/ /\ DOMAIN _cached_subschemas.subschemas = CategoryNames
       /\ \A c \in CategoryNames : _cached_subschemas.subschemas[c].name = c

\* C3 witness: a reader calls get while a caller is in the middle of its loop
C3_Witness ==
    /\ \E p \in Callers : MidBuild(p)
    /\ last.op = "get"

\* C4: get raises the not-initialized error whenever no prefetch call has completed and
\* returns nothing then; once a prefetch call has completed it raises nothing and
\* returns the cached object, which holds every category.
C4_GetRaisesUntilPrefetched ==
    last.op = "get" =>
        IF last.completed = 0
        THEN /\ last.outcome.raised = ERR_SUBSCHEMAS_NOT_INIT
             /\ IsNone(last.outcome.value)
        ELSE /\ last.outcome.raised = ""
             /\ ~IsNone(last.outcome.value)
             /\ last.outcome.value = last.before
             /\ DOMAIN last.outcome.value.subschemas = CategoryNames

\* C4 witness: get is called, and raises, while a build is under way and none has completed
C4_Witness ==
    /\ last.op = "get"
    /\ last.completed = 0
    /\ last.outcome.raised = ERR_SUBSCHEMAS_NOT_INIT
    /\ \E p \in Callers : MidBuild(p)

\* a lookup call that found the cache published
LookupOnReadyCache ==
    /\ last.op = "lookup"
    /\ ~IsNone(last.before)

RequestedNames == ListToSet(last.categories)

\* what the unknown-category error must carry: no SDL, exactly the requested names that
\* are no category, and every category name once, in ascending order
UnknownCategoryError ==
    /\ last.outcome.raised = ERR_INVALID_CATEGORY
    /\ last.outcome.sdl = << >>
    /\ ListToSet(last.outcome.invalid_categories) = RequestedNames \ CategoryNames
    /\ ListToSet(last.outcome.available_categories) = CategoryNames
    /\ Len(last.outcome.available_categories) = Cardinality(CategoryNames)
    /\ \A i, j \in 1..Len(last.outcome.available_categories) :
          i < j => Rank(last.outcome.available_categories[i]) < Rank(last.outcome.available_categories[j])

\* C5 as stated: lookup on a published cache with some unknown name in the request fails
\* with the unknown-category error.  (While prefetch_schema has not run the call
\* raises "Schema not initialized" instead: TLC finds this violated.)
C5_UnknownCategoryOnReadyCache ==
    (LookupOnReadyCache /\ RequestedNames \ CategoryNames # {}) => UnknownCategoryError

\* C5 amended: lookup on a published cache, once prefetch_schema has run too, with some
\* unknown name in the request fails with the unknown-category error, returns no SDL,
\* names exactly the requested names that are unknown and lists every valid category
\* name in ascending order, also when other requested names are valid.
C5_UnknownCategoryAfterSchemaPrefetch ==
    (LookupOnReadyCache /\ last.schema_text /\ RequestedNames \ CategoryNames # {}) => UnknownCategoryError

\* C5 witness: a request naming one category and one unknown name fails
C5_Witness ==
    /\ LookupOnReadyCache
    /\ last.schema_text
    /\ last.categories = <<"target-info", "unknown-category">>
    /\ last.outcome.raised = ERR_INVALID_CATEGORY

\* the types the requested categories hold in the cache the call found
RequestedTypes == UNION {last.before.subschemas[c].types : c \in RequestedNames}

TypeDefined(fragment) == CHOOSE t \in MockSchema.type_map : print_type(t) = fragment

\* what a successful lookup must return: the definition of every requested type once, in
\* ascending order of type name, with one blank line between two definitions
CombinedSdl ==
    LET sdl == last.outcome.sdl
        definitions == {i \in 1..Len(sdl) : i % 2 = 1}
    IN  /\ last.outcome.raised = ""
        /\ Len(sdl) = IF RequestedTypes = {} THEN 0 ELSE 2 * Cardinality(RequestedTypes) - 1
        /\ \A i \in 1..Len(sdl) : i % 2 = 0 => sdl[i] = BlankLine
        /\ \A i \in definitions : \E t \in RequestedTypes : sdl[i] = print_type(t)
        /\ \A t \in RequestedTypes : Cardinality({i \in definitions : sdl[i] = print_type(t)}) = 1
        /\ \A i, j \in definitions : i < j => Rank(TypeDefined(sdl[i])) < Rank(TypeDefined(sdl[j]))

\* C6 as stated: lookup on a published cache with only valid names returns the combined
\* SDL.  (While prefetch_schema has not run the call raises "Schema not initialized"
\* instead: TLC finds this violated.)
C6_CombinedSdlOnReadyCache ==
    (LookupOnReadyCache /\ RequestedNames \subseteq CategoryNames) => CombinedSdl

\* C6 amended: lookup on a published cache, once prefetch_schema has run too, with only
\* valid names returns the SDL of the union of the requested categories' expanded
\* types: every type's definition once, in ascending order of type name, definitions
\* joined by one blank line.
C6_CombinedSdlAfterSchemaPrefetch ==
    (LookupOnReadyCache /\ last.schema_text /\ RequestedNames \subseteq CategoryNames) => CombinedSdl

\* C6 witness: two categories that share types, and differ in others, are combined
C6_Witness ==
    /\ LookupOnReadyCache
    /\ last.schema_text
    /\ last.categories = <<"target-info", "disease-info">>
    /\ last.outcome.raised = ""
    /\ last.before.subschemas["target-info"].types \ last.before.subschemas["disease-info"].types # {}
    /\ last.before.subschemas["disease-info"].types \ last.before.subschemas["target-info"].types # {}
    /\ last.before.subschemas["target-info"].types \cap last.before.subschemas["disease-info"].types # {}

\* C7: once a prefetch call has completed, a get or lookup call, whether it returns or
\* raises, leaves the cache exactly as it found it (key set, every category's types and
\* sdl, depth, and the object itself), and get returns that very object.
C7_ReadsLeaveCacheUnchanged ==
    (last.op \in {"get", "lookup"} /\ last.completed > 0) =>
        /\ _cached_subschemas = last.before
        /\ last.op = "get" => last.outcome.value = _cached_subschemas

\* C7 witness: a lookup made after prefetch fails on an unknown category
C7_Witness ==
    /\ last.op = "lookup"
    /\ last.completed > 0
    /\ last.outcome.raised = ERR_INVALID_CATEGORY

(***************************************************************************)
(* Properties of the expansion (specification SpecReach).                  *)
(***************************************************************************)
RunDone == r_pc = "done"

\* the seeds of the run that are types of its graph
ValidSeeds == ListToSet(r_seeds) \cap r_graph.types

\* the types with a reference path of at most n edges from some seed that is a type of
\* the graph, by induction on n
RECURSIVE WithinDistance(_, _, _)
WithinDistance(graph, seeds, n) ==
    IF n = 0 THEN seeds \cap graph.types
    ELSE LET nearer == WithinDistance(graph, seeds, n - 1)
         IN  nearer \cup UNION {graph.edges[x] : x \in nearer}

\* C8: at depth 0 the expansion returns the seeds that are types of the graph and
\* nothing else, whatever the seeds reference.
C8_DepthZeroIsFilteredSeeds ==
    (RunDone /\ r_depth = IntDepth(0)) => r_visited = ValidSeeds

\* C8 witness: a depth-0 run has returned whose seeds include an unknown name and a type
\* that references a type outside the seeds
C8_Witness ==
    /\ RunDone
    /\ r_depth = IntDepth(0)
    /\ "Bogus" \in ListToSet(r_seeds)
    /\ \E s \in ValidSeeds : r_graph.edges[s] \ ValidSeeds # {}

\* C9: at a finite depth n the expansion returns exactly the types at distance at most n
\* from a valid seed: none farther, and every one that near.
C9_FiniteDepthIsDistanceBall ==
    (RunDone /\ ~r_depth.exhaustive) => r_visited = WithinDistance(r_graph, ListToSet(r_seeds), r_depth.n)

\* C9 witness: a run at depth n >= 1 has returned on a graph with a type at distance
\* exactly n and a type at distance exactly n + 1
C9_Witness ==
    /\ RunDone
    /\ ~r_depth.exhaustive
    /\ r_depth.n >= 1
    /\ WithinDistance(r_graph, ListToSet(r_seeds), r_depth.n) # WithinDistance(r_graph, ListToSet(r_seeds), r_depth.n - 1)
    /\ WithinDistance(r_graph, ListToSet(r_seeds), r_depth.n + 1) # WithinDistance(r_graph, ListToSet(r_seeds), r_depth.n)

\* C10: what the expansion returns at a finite depth d is contained in what it returns at
\* depth d + 1 and in what it returns at depth "exhaustive", for the same graph and seeds.
C10_MonotonicInDepth ==
    (RunDone /\ ~r_depth.exhaustive) =>
        /\ r_visited \subseteq expanded_types([types |-> r_seeds], r_graph, IntDepth(r_depth.n + 1))
        /\ r_visited \subseteq expanded_types([types |-> r_seeds], r_graph, Exhaustive)

\* C10 witness: a finite-depth run has returned that expanded beyond its seeds and that
\* one more level would expand further
C10_Witness ==
    /\ RunDone
    /\ ~r_depth.exhaustive
    /\ r_visited # ValidSeeds
    /\ r_visited # expanded_types([types |-> r_seeds], r_graph, IntDepth(r_depth.n + 1))

\* C11: the exhaustive result is a fixpoint: expanding it once more, at depth 1 and with
\* the result as seeds, returns the same set, which is closed under the references.
C11_ExhaustiveIsFixpoint ==
    (RunDone /\ r_depth.exhaustive) =>
        /\ expanded_types([types |-> sorted(r_visited)], r_graph, IntDepth(1)) = r_visited
        /\ \A x \in r_visited : r_graph.edges[x] \subseteq r_visited

\* C11 witness: an exhaustive run has returned that needed two levels or more
C11_Witness ==
    /\ RunDone
    /\ r_depth.exhaustive
    /\ WithinDistance(r_graph, ListToSet(r_seeds), 2) # WithinDistance(r_graph, ListToSet(r_seeds), 1)

\* C12: names that are no types of the graph are dropped from the seeds without error:
\* the run returns what it returns for the seeds without them, at every depth, and
\* returns types of the graph only.
C12_UnknownSeedsDropped ==
    RunDone =>
        /\ r_visited = expanded_types([types |-> sorted(ListToSet(r_seeds) \ {"Bogus"})], r_graph, r_depth)
        /\ r_visited \subseteq r_graph.types

\* C12 witness: a run seeded with the unknown name and with types has returned more than
\* its seeds
C12_Witness ==
    /\ RunDone
    /\ "Bogus" \in ListToSet(r_seeds)
    /\ ValidSeeds # {}
    /\ r_visited # ValidSeeds

\* C13: the expansion terminates on every graph, cycles included, at every depth: the
\* loop takes at most one step per type of the graph (each step but the last visits a
\* new type), and a run that has not returned can always take its next step.
C13_ExpansionTerminates ==
    /\ r_level <= Cardinality(r_graph.types)
    /\ r_pc \in {"call", "expand"} => ENABLED (ReachBegin \/ ReachExpand \/ ReachReturn)

\* C13 witness: an exhaustive run over a cycle of two types has returned
C13_Witness ==
    /\ RunDone
    /\ r_depth.exhaustive
    /\ \E x, y \in r_visited : x # y /\ y \in r_graph.edges[x] /\ x \in r_graph.edges[y]

(***************************************************************************)
(* Properties of the registry and of failed builds (specification Spec).   *)
(***************************************************************************)
\* the entries of the loaded registry
RegistryEntries == {categories_json[i] : i \in 1..Len(categories_json)}

\* the registry entries none of whose seeds is a type of the schema
UnseededEntries ==
    {e \in RegistryEntries : "types" \in DOMAIN e.data /\ ListToSet(e.data.types) \cap MockGraph.types = {}}

\* C14: a category none of whose seeds is a type of the graph is built, at every depth
\* setting, with no types and the empty SDL; the build raises nothing, the prefetch
\* completes and the published cache holds the category.
C14_UnseededCategoryIsEmpty ==
    /\ \A p \in Callers : \A e \in UnseededEntries :
          e.name \in DOMAIN subschemas[p] =>
              subschemas[p][e.name].types = {} /\ subschemas[p][e.name].sdl = << >>
    /\ \A p \in Callers : (pc[p] = "done" /\ _cached_subschemas.id = p) =>
          \A e \in UnseededEntries :
              /\ e.name \in DOMAIN _cached_subschemas.subschemas
              /\ _cached_subschemas.subschemas[e.name].types = {}
              /\ _cached_subschemas.subschemas[e.name].sdl = << >>
    /\ (UnseededEntries # {} /\ \A e \in RegistryEntries : "types" \in DOMAIN e.data) =>
          \A p \in Callers : pc[p] # ERR_MISSING_TYPES

\* C14 witness: an exhaustive prefetch has completed and published the category whose
\* only seed is unknown
C14_Witness ==
    /\ UnseededEntries # {}
    /\ \E p \in Callers : pc[p] = "done" /\ _cached_subschemas.id = p /\ _cached_subschemas.depth = Exhaustive
    /\ _cached_subschemas.subschemas["test"].sdl = << >>

\* the entries that lack a field
EntriesMissing(field) == {e \in RegistryEntries : field \notin DOMAIN e.data}

\* the names of the entries in front of the first entry that has no "types"
NamesBeforeMissingTypes ==
    {categories_json[i].name : i \in {j \in 1..Len(categories_json) : \A k \in 1..j : "types" \in DOMAIN categories_json[k].data}}

\* C16 as stated: with an entry whose description or types field is missing every
\* prefetch fails and no cache is published.  (An entry without description is built
\* with the empty description and published: TLC finds this violated.)
C16_MalformedEntryFailsPrefetch ==
    (EntriesMissing("description") \cup EntriesMissing("types")) # {} =>
        /\ IsNone(_cached_subschemas)
        /\ \A p \in Callers : pc[p] # "done"

\* C16 amended: with an entry whose types field is missing no prefetch completes, no
\* cache is published, and a build never gets past that entry, where it raises the
\* KeyError; an entry whose description alone is missing is built, with the empty string
\* as its description.
C16_MissingTypesFailsPrefetch ==
    /\ EntriesMissing("types") # {} =>
          /\ IsNone(_cached_subschemas)
          /\ \A p \in Callers : pc[p] # "done" /\ DOMAIN subschemas[p] \subseteq NamesBeforeMissingTypes
    /\ \A p \in Callers : pc[p] = ERR_MISSING_TYPES => EntriesMissing("types") # {}
    /\ ~IsNone(_cached_subschemas) =>
          \A e \in EntriesMissing("description") : _cached_subschemas.subschemas[e.name].description = ""

\* C16 witness: a build has raised on the entry without types after building the entry
\* in front of it, while another build is at that entry
C16_Witness ==
    /\ EntriesMissing("types") # {}
    /\ \E p, q \in Callers :
          /\ pc[p] = ERR_MISSING_TYPES
          /\ pc[q] = "loop"
          /\ DOMAIN subschemas[q] = NamesBeforeMissingTypes
          /\ NamesBeforeMissingTypes # {}

\* C17: a build attempted while the graph and the schema have not been fetched fails
\* with the schema-unavailable error before it traverses any category: without them no
\* caller is in the loop or has completed, and nothing is published; a call that failed
\* so built nothing and is never the one that published.
C17_NoBuildWithoutGraph ==
    /\ ~_cached_type_graph =>
          /\ IsNone(_cached_subschemas)
          /\ builds = 0
          /\ \A p \in Callers : pc[p] \in {"idle", ERR_SCHEMA_UNAVAILABLE}
    /\ \A p \in Callers : pc[p] = ERR_SCHEMA_UNAVAILABLE =>
          /\ subschemas[p] = EmptyDict
          /\ _cached_subschemas.id # p

\* C17 witness: a call has failed for want of the graph, and a reader's get raises
C17_Witness ==
    /\ ~_cached_type_graph
    /\ \E p \in Callers : pc[p] = ERR_SCHEMA_UNAVAILABLE
    /\ last.op = "get"
    /\ last.outcome.raised = ERR_SUBSCHEMAS_NOT_INIT

\* a call that left the build without completing it
Aborted(p) == pc[p] \in {ERR_MISSING_TYPES, ERR_SCHEMA_UNAVAILABLE, "interrupted"}

\* C18: a prefetch that is cut short, by an error on some category or by an
\* interruption, publishes nothing: the cache never holds the object of an aborted
\* call, it is None as long as no call has completed, and get and lookup called then
\* raise a not-initialized error and serve no category.
C18_AbortedBuildPublishesNothing ==
    /\ \A p \in Callers : Aborted(p) => _cached_subschemas.id # p
    /\ Completed = 0 => IsNone(_cached_subschemas)
    /\ (last.op \in {"get", "lookup"} /\ last.completed = 0) =>
          /\ last.outcome.raised \in {ERR_SUBSCHEMAS_NOT_INIT, ERR_SCHEMA_NOT_INIT}
          /\ last.outcome.sdl = << >>
          /\ IsNone(last.outcome.value)

\* C18 witness: one call was interrupted, another raised on its second category, none
\* has completed, and a lookup of a category that had been built raises
C18_Witness ==
    /\ \E p, q \in Callers : pc[p] = "interrupted" /\ pc[q] = ERR_MISSING_TYPES
    /\ last.op = "lookup"
    /\ last.categories = <<"target-info">>
    /\ last.schema_text
    /\ last.outcome.raised = ERR_SUBSCHEMAS_NOT_INIT

\* C19: once a prefetch has completed, the keys of the cache are the category names of
\* the registry, each CategorySubschema carries its own name and the description of its
\* registry entry, and the list of available categories is those keys, each once, in
\* ascending order.
C19_KeysAreRegistryNames ==
    /\ ~IsNone(_cached_subschemas) =>
          /\ DOMAIN _cached_subschemas.subschemas = CategoryNames
          /\ \A e \in RegistryEntries :
                /\ _cached_subschemas.subschemas[e.name].name = e.name
                /\ _cached_subschemas.subschemas[e.name].description =
                      (IF "description" \in DOMAIN e.data THEN e.data.description ELSE "")
    /\ (last.op = "lookup" /\ last.outcome.raised = ERR_INVALID_CATEGORY) =>
          LET listed == last.outcome.available_categories
          IN  /\ ListToSet(listed) = DOMAIN last.before.subschemas
              /\ \A i, j \in 1..Len(listed) : i < j => Rank(listed[i]) < Rank(listed[j])

\* C19 witness: on the registry of the fixtures a lookup has listed the three categories
C19_Witness ==
    /\ last.op = "lookup"
    /\ last.outcome.available_categories = <<"disease-info", "target-info", "test">>
    /\ _cached_subschemas.subschemas["disease-info"].description = "Disease information and drugs"

\* C15: rendering is deterministic: whatever order the set of types yields its members
\* in, the rendered SDL is the same text, the definitions in ascending order of the
\* type names, and it is the text assemble and lookup render for that set.
C15_RenderingIsDeterministic ==
    r_pc = "rendered" =>
        /\ \A order \in IterationOrders(r_visited) : _types_to_sdl_iterating(order, ReachSchema) = r_sdl
        /\ r_sdl = _types_to_sdl(r_visited, ReachSchema)

\* C15 witness: three types were rendered from an iteration that was not in ascending order
C15_Witness ==
    /\ r_pc = "rendered"
    /\ Cardinality(r_visited) = 3
    /\ r_iter = <<"C", "A", "B">>
    /\ r_sdl = <<"type A", BlankLine, "type B", BlankLine, "type C">>

(***************************************************************************)
(* Properties of the batch call (specification SpecBatch).                 *)
(***************************************************************************)
\* the entries of the call whose execution raises an exception
RaisingEntries == {i \in 1..Len(b_variables_list) : execution_raises(b_variables_list[i])}

\* C20: an exception raised while one variable set is executed is caught for that entry
\* only: the call does not raise, it returns a BatchQueryResult in which that entry has
\* status ERROR with the message of the exception, every other entry has its own
\* result, and the summary counts the entry among the failed.  (The exception leaves
\* _handle_single_query and gather: TLC finds this violated.)
C20_ExceptionCaughtPerEntry ==
    /\ b_pc # "raised"
    /\ (b_pc = "returned" /\ b_variables_list # << >>) =>
          /\ Len(b_outcome.results) = Len(b_variables_list)
          /\ \A i \in 1..Len(b_variables_list) :
                IF i \in RaisingEntries
                THEN /\ b_outcome.results[i].result.status = ERROR
                     /\ b_outcome.results[i].result.message = b_variables_list[i].response.result.message
                ELSE b_outcome.results[i] = _handle_single_query(i - 1, b_variables_list[i].variables, b_variables_list[i].response)
          /\ b_outcome.summary.failed = Cardinality({i \in 1..Len(b_variables_list) : b_outcome.results[i].result.status = ERROR})
          /\ b_outcome.summary.total = Len(b_variables_list)

\* the entries of the call whose variables lack the key field
KeylessEntries == {i \in 1..Len(b_variables_list) : "ensemblId" \notin DOMAIN b_variables_list[i].variables}

\* the entries of a returned batch result that have the given status
EntriesWithStatus(status) == {i \in 1..Len(b_outcome.results) : b_outcome.results[i].result.status = status}

\* C21: the result of a batch call on a non-empty variables_list has one entry per
\* variable set, total is the length of the list, successful, failed and warning count
\* the entries of each status and add up to total; an entry without the key field is an
\* ERROR entry with no key and was never executed, every other entry was executed once.
C21_SummaryCountsEveryEntry ==
    (b_pc = "returned" /\ b_variables_list # << >>) =>
        /\ Len(b_outcome.results) = Len(b_variables_list)
        /\ \A i \in 1..Len(b_variables_list) : b_outcome.results[i].index = i - 1
        /\ b_outcome.summary.total = Len(b_variables_list)
        /\ b_outcome.summary.successful = Cardinality(EntriesWithStatus(SUCCESS))
        /\ b_outcome.summary.failed = Cardinality(EntriesWithStatus(ERROR))
        /\ b_outcome.summary.warning = Cardinality(EntriesWithStatus(WARNING))
        /\ b_outcome.summary.successful + b_outcome.summary.failed + b_outcome.summary.warning = b_outcome.summary.total
        /\ \A i \in 1..Len(b_variables_list) :
              IF i \in KeylessEntries
              THEN /\ b_outcome.results[i].key = NoKey
                   /\ b_outcome.results[i].result.status = ERROR
                   /\ b_calls[i] = 0
              ELSE /\ b_outcome.results[i].key = b_variables_list[i].variables.ensemblId
                   /\ b_outcome.results[i].result.status = b_variables_list[i].response.result.status
                   /\ b_calls[i] = 1

\* C21 witness: a call has returned whose list held an entry without the key field,
\* between an entry that succeeded and one that ended with a warning
C21_Witness ==
    /\ b_pc = "returned"
    /\ Len(b_variables_list) = 3
    /\ KeylessEntries = {2}
    /\ b_outcome.summary = [total |-> 3, successful |-> 1, failed |-> 1, warning |-> 1]

\* the tasks of the call whose execute_graphql_query is in flight
InFlight == {i \in DOMAIN b_tasks : b_tasks[i] = "executing"}

\* every task of the call has left _handle_single_query
AllTasksOver == b_pc # "call" /\ \A i \in DOMAIN b_tasks : b_tasks[i] \in {"returned", "raised"}

C22_SeedsAreKept ==
    r_pc \in {"expand", "done", "rendered"} => ValidSeeds \subseteq r_visited

\* C22 witness: an exhaustive run with a valid and an unknown seed has returned its
\* valid seeds among other types
C22_Witness ==
    /\ RunDone
    /\ r_depth.exhaustive
    /\ "Bogus" \in ListToSet(r_seeds)
    /\ ValidSeeds # {}
    /\ ValidSeeds # r_visited
    /\ ValidSeeds \subseteq r_visited

\* what the exhaustive expansion returns for the seeds of the run
ExhaustiveResult == expanded_types([types |-> r_seeds], r_graph, Exhaustive)

\* C24: a finite depth at or beyond saturation gives the exhaustive result: a run at a
\* finite depth that ended on an empty frontier, or whose depth is at least the number
\* of types, returns what the exhaustive run returns; and the loop stops at the first
\* empty frontier: every level before the last one still found types.
C24_SaturatedDepthIsExhaustive ==
    (RunDone /\ ~r_depth.exhaustive) =>
        /\ (r_frontier = {} \/ r_depth.n >= Cardinality(r_graph.types)) => r_visited = ExhaustiveResult
        /\ r_level <= r_depth.n
        /\ \A j \in 1..(r_level - 1) :
              WithinDistance(r_graph, ListToSet(r_seeds), j) # WithinDistance(r_graph, ListToSet(r_seeds), j - 1)

\* C24 witness: a run at depth 3 has stopped after two steps, the second of which
\* found nothing new, having found types beyond its seeds
C24_Witness ==
    /\ RunDone
    /\ r_depth = IntDepth(3)
    /\ r_level = 2
    /\ r_frontier = {}
    /\ r_visited # ValidSeeds
    /\ r_visited = ExhaustiveResult

\* C25: the search never revisits a type: the frontier an expansion step produces
\* shares nothing with the types visited before the step, so a type enters a frontier
\* once at most.
C25_NeverRevisits ==
    [][(r_pc = "expand" /\ r_level' = r_level + 1) => (r_frontier' \cap r_visited = {})]_vars

\* C25 witness: on a cycle of two types the second step found only visited types and
\* produced the empty frontier
C25_Witness ==
    /\ r_pc = "expand"
    /\ r_level = 2
    /\ r_frontier = {}
    /\ \E x, y \in r_visited : x # y /\ y \in r_graph.edges[x] /\ x \in r_graph.edges[y]

\* C30: the expansion distributes over the union of seed sets: however the seeds of
\* the run are covered by two sets, what the run returns is the union of what the
\* expansion returns for each of the two at the same depth.
C30_DistributesOverSeedUnion ==
    RunDone =>
        \A S1, S2 \in SUBSET ListToSet(r_seeds) :
            (S1 \cup S2 = ListToSet(r_seeds)) =>
                r_visited = expanded_types([types |-> sorted(S1)], r_graph, r_depth)
                            \cup expanded_types([types |-> sorted(S2)], r_graph, r_depth)

\* C30 witness: a run seeded with two types, each reaching a type the other does not,
\* has returned
C30_Witness ==
    /\ RunDone
    /\ ListToSet(r_seeds) = {"A", "B"}
    /\ r_graph.edges["A"] = {"C"}
    /\ r_graph.edges["B"] = {}
    /\ r_depth = IntDepth(1)
    /\ r_visited = {"A", "B", "C"}

(***************************************************************************)
(* Further properties of the cache (specification Spec).                   *)
(***************************************************************************)
\* the types at the distance a depth setting allows from the seeds of a registry entry
ReachAtDepth(entry, depth) ==
    WithinDistance(MockGraph, ListToSet(entry.data.types), IF depth.exhaustive THEN Cardinality(MockGraph.types) ELSE depth.n)

\* C23: a cache that becomes the module-level cache records the depth passed to the
\* prefetch call that built and assigned it, and the types of every category in it are
\* the types reachable from the category's valid seeds at that recorded depth.
C23_CacheBuiltAtRecordedDepth ==
    [][(_cached_subschemas' # _cached_subschemas /\ ~IsNone(_cached_subschemas')) =>
          /\ \E p \in Callers :
                /\ pc[p] = "loop" /\ pc'[p] = "done"
                /\ _cached_subschemas'.id = p
                /\ _cached_subschemas'.depth = depth_arg[p]
          /\ \A e \in RegistryEntries :
                _cached_subschemas'.subschemas[e.name].types = ReachAtDepth(e, _cached_subschemas'.depth)]_vars

\* C23 witness: an exhaustive build is published while another caller, at depth 1, is
\* in the middle of its loop
C23_Witness ==
    /\ ~IsNone(_cached_subschemas)
    /\ _cached_subschemas.depth = Exhaustive
    /\ _cached_subschemas.subschemas["target-info"].types # ReachAtDepth(categories_json[1], IntDepth(1))
    /\ \E q \in Callers : MidBuild(q) /\ depth_arg[q] = IntDepth(1)

NotInitializedErrors == {ERR_SUBSCHEMAS_NOT_INIT, ERR_SCHEMA_NOT_INIT}

\* C27 as stated: lookup raises a not-initialized error exactly when no category
\* prefetch has completed, and with only valid names it returns SDL once one has,
\* whether or not prefetch_schema has run.  (schema.py:41-43 raises "Schema not
\* initialized" until prefetch_schema has run: TLC finds this violated.)
C27_NotInitializedIffNoPrefetch ==
    last.op = "lookup" =>
        /\ (last.outcome.raised \in NotInitializedErrors) <=> (last.completed = 0)
        /\ (last.completed > 0 /\ RequestedNames \subseteq CategoryNames) => last.outcome.raised = ""

\* C27 amended: lookup raises "Schema not initialized" exactly when prefetch_schema has
\* not run, raises the subschemas' not-initialized error exactly when prefetch_schema
\* has run and no category prefetch has completed, and once both have completed it
\* returns SDL for every request of valid names only.
C27_NotInitializedIffEitherPrefetchMissing ==
    last.op = "lookup" =>
        /\ (last.outcome.raised = ERR_SCHEMA_NOT_INIT) <=> ~last.schema_text
        /\ (last.outcome.raised = ERR_SUBSCHEMAS_NOT_INIT) <=> (last.schema_text /\ last.completed = 0)
        /\ (last.schema_text /\ last.completed > 0 /\ RequestedNames \subseteq CategoryNames) => last.outcome.raised = ""

\* C27 witness: a lookup of a valid name on a published cache raises because
\* prefetch_schema has not run
C27_Witness ==
    /\ LookupOnReadyCache
    /\ last.completed > 0
    /\ ~last.schema_text
    /\ last.categories = <<"target-info">>
    /\ last.outcome.raised = ERR_SCHEMA_NOT_INIT

\* a lookup of one category of the published cache
LookupOfOneCategory ==
    /\ LookupOnReadyCache
    /\ Len(last.categories) = 1
    /\ last.categories[1] \in DOMAIN last.before.subschemas

\* C28 as stated: lookup of one category of a published cache returns the sdl stored
\* for it.  (While prefetch_schema has not run the call raises instead: TLC finds this
\* violated.)
C28_LookupReturnsStoredSdl ==
    LookupOfOneCategory =>
        /\ last.outcome.raised = ""
        /\ last.outcome.sdl = last.before.subschemas[last.categories[1]].sdl

\* C28 amended: once prefetch_schema has run too, lookup of one category of a published
\* cache returns exactly the sdl the build stored for that category.
C28_LookupReturnsStoredSdlAfterSchemaPrefetch ==
    (LookupOfOneCategory /\ last.schema_text) =>
        /\ last.outcome.raised = ""
        /\ last.outcome.sdl = last.before.subschemas[last.categories[1]].sdl

\* C28 witness: the lookup of a category built exhaustively returns its stored sdl, of
\* more types than its seeds
C28_Witness ==
    /\ LookupOfOneCategory
    /\ last.schema_text
    /\ last.categories = <<"target-info">>
    /\ last.before.depth = Exhaustive
    /\ Len(last.outcome.sdl) > 3
    /\ last.outcome.sdl = last.before.subschemas["target-info"].sdl

====
